---- MODULE Spec2Model ----
(***************************************************************************)
(* Template Bash Script Editor (src/app.py): the path guard, the root      *)
(* cache, the settings record, the save / list_dir / render handlers and   *)
(* the placeholder extractor.                                              *)
(*                                                                         *)
(* Text is a sequence of one-character strings, so that prefix tests,      *)
(* stripping and splitting are computed on characters as the code does.    *)
(***************************************************************************)
EXTENDS Integers, Sequences, FiniteSets, TLC

VARIABLES
    settingsFile,        \* instance/settings.json: absent, or the record last written
    ROOTS,               \* module global ROOTS: sequence of [id, path]
    ALLOWED_ROOT_PATHS,  \* module global ALLOWED_ROOT_PATHS: sequence of paths
    envRoot,             \* os.environ.get("TEMPLATE_EDITOR_ROOT"), "" when unset
    dirs,                \* the directories that exist (canonical paths)
    files,               \* the regular files that exist: canonical path -> content
    last,                \* the last request handled: its kind and its response
    savedAt,             \* history: file_path opened -> content of the last successful save there
    savedReal,           \* history: canonical file -> content of the last successful save reaching it
    sp,                  \* one call of is_subpath: operands and result
    ex,                  \* one call of extract_jinja_variables: text and result
    rd                   \* one POST /api/render: body and response

vars == <<settingsFile, ROOTS, ALLOWED_ROOT_PATHS, envRoot, dirs, files, last, savedAt, savedReal, sp, ex, rd>>

---------------------------------------------------------------------------
(* Text helpers (Python str methods)                                       *)

Sep == "/"

\* str.startswith
StartsWith(s, pre) ==
    /\ Len(pre) <= Len(s)
    /\ SubSeq(s, 1, Len(pre)) = pre

\* substring test: `sub in s`
Contains(s, sub) ==
    \E i \in 1..(Len(s) - Len(sub) + 1) : SubSeq(s, i, i + Len(sub) - 1) = sub

RECURSIVE RStrip(_, _)
\* str.rstrip(ch)
RStrip(s, ch) ==
    IF s # <<>> /\ s[Len(s)] = ch THEN RStrip(SubSeq(s, 1, Len(s) - 1), ch) ELSE s

RECURSIVE LStrip(_, _)
LStrip(s, ch) ==
    IF s # <<>> /\ Head(s) = ch THEN LStrip(Tail(s), ch) ELSE s

\* str.strip() on text whose only whitespace is the blank
Strip(s) == LStrip(RStrip(s, " "), " ")

RECURSIVE SplitFrom(_, _, _, _)
\* the components of s[i..] between separators, cur being the one under way
SplitFrom(s, i, cur, acc) ==
    IF i > Len(s) THEN Append(acc, cur)
    ELSE IF s[i] = Sep THEN SplitFrom(s, i + 1, <<>>, Append(acc, cur))
    ELSE SplitFrom(s, i + 1, Append(cur, s[i]), acc)

\* s.split("/"): the components between separators, empty ones included
Split(s) == SplitFrom(s, 1, <<>>, <<>>)

RECURSIVE ToPath(_)
\* the absolute path made of the components of a stack
ToPath(stack) ==
    IF stack = <<>> THEN <<Sep>>
    ELSE IF Len(stack) = 1 THEN <<Sep>> \o stack[1]
    ELSE ToPath(SubSeq(stack, 1, Len(stack) - 1)) \o <<Sep>> \o stack[Len(stack)]

---------------------------------------------------------------------------
(* The filesystem the process runs in                                      *)

P_root == <<"/">>
P_a    == <<"/", "a">>
P_ab   == <<"/", "a", "b">>
P_a_a  == <<"/", "a", "/", "a">>
P_a_b  == <<"/", "a", "/", "b">>
P_a_c  == <<"/", "a", "/", "c">>
P_ab_c == <<"/", "a", "b", "/", "c">>

\* os.path.expanduser("~")
HOME_DIR == P_a

\* The symbolic links of the filesystem: /a/c -> /ab/c, a link inside the home
\* directory whose target lies in the sibling directory /ab.
SymLinks == { P_a_c }
ReadLink(p) == P_ab_c

\* os.path.islink
islink(p) == p \in SymLinks

RECURSIVE JoinRealPath(_, _)
\* posixpath._joinrealpath on an absolute path: the stack of resolved components
\* after walking the components `rest`
JoinRealPath(stack, rest) ==
    IF rest = <<>> THEN stack
    ELSE LET name == Head(rest)
             tl == Tail(rest)
         IN  IF name = <<>> \/ name = <<".">> THEN JoinRealPath(stack, tl)
             ELSE IF name = <<".", ".">>
                  THEN JoinRealPath(IF stack = <<>> THEN <<>>
                                    ELSE SubSeq(stack, 1, Len(stack) - 1), tl)
             ELSE IF islink(ToPath(Append(stack, name)))
                  THEN JoinRealPath(
                           JoinRealPath(<<>>, Split(ReadLink(ToPath(Append(stack, name))))),
                           tl)
             ELSE JoinRealPath(Append(stack, name), tl)

\* os.path.realpath of an absolute path
realpath(p) == ToPath(JoinRealPath(<<>>, Split(p)))

\* is_subpath with the directory-boundary step left out (plain prefix test)
is_subpath_nosep(path, parent) ==
    LET path_real == realpath(path)
        parent_real == realpath(parent)
    IN  \/ path_real = parent_real
        \/ StartsWith(path_real, parent_real)

\* is_subpath(path, parent)
is_subpath(path, parent) ==
    LET path_real == realpath(path)
        parent_real == realpath(parent)
        parent_with_sep == RStrip(parent_real, Sep) \o <<Sep>>
    IN  \/ path_real = parent_real
        \/ StartsWith(path_real, parent_with_sep)

\* is_allowed_path(path), against the cached list
is_allowed_path(path) ==
    \E i \in 1..Len(ALLOWED_ROOT_PATHS) : is_subpath(path, ALLOWED_ROOT_PATHS[i])

\* safe_filename(name)
safe_filename(name) ==
    IF name = <<>> \/ Strip(name) = <<>> THEN FALSE
    ELSE IF Contains(name, <<"/">>) \/ Contains(name, <<"\\">>) \/ Contains(name, <<".", ".">>)
         THEN FALSE
    ELSE TRUE

\* os.path.join(a, b)
PathJoin(a, b) ==
    IF b # <<>> /\ Head(b) = Sep THEN b
    ELSE IF a = <<>> \/ a[Len(a)] = Sep THEN a \o b
    ELSE a \o <<Sep>> \o b

RECURSIVE LastSepIndex(_)
\* s.rfind("/") + 1
LastSepIndex(s) ==
    IF s = <<>> THEN 0
    ELSE IF s[Len(s)] = Sep THEN Len(s)
    ELSE LastSepIndex(SubSeq(s, 1, Len(s) - 1))

\* os.path.dirname(p)
PathDirname(p) ==
    LET head == SubSeq(p, 1, LastSepIndex(p))
    IN  IF head # <<>> /\ RStrip(head, Sep) # <<>> THEN RStrip(head, Sep) ELSE head

\* os.path.isdir(p): follows links. Exact for the paths used here, whose ".."
\* components only step out of directories that exist.
isdir(p) == realpath(p) \in dirs

\* the directories os.makedirs(p) has to make exist: p and its ancestors
RECURSIVE Ancestors(_)
Ancestors(p) ==
    IF p = P_root \/ p = <<>> THEN {P_root}
    ELSE {p} \cup Ancestors(PathDirname(p))

---------------------------------------------------------------------------
(* Settings and roots                                                      *)

C_MINT  == <<"#e8f5e9">>
C_BLUE  == <<"#e3f2fd">>
C_ROSE  == <<"#ffeef3">>
C_GRAY  == <<"#f1f3f5">>
C_LAV   == <<"#ede7f6">>

\* ALLOWED_NAV_COLORS, the values only. A colour is text made of one body
\* chunk and blanks around it.
ALLOWED_NAV_COLORS == << C_MINT, C_BLUE, C_ROSE, C_GRAY, C_LAV >>

allowed_values == { ALLOWED_NAV_COLORS[i] : i \in 1..Len(ALLOWED_NAV_COLORS) }

NoFile == [present |-> FALSE, additional_root |-> <<>>, navbar_color |-> <<>>]

\* load_settings(): the defaults, updated by the stored record
load_settings(file) ==
    IF file.present
    THEN [additional_root |-> file.additional_root, navbar_color |-> file.navbar_color]
    ELSE [additional_root |-> <<>>, navbar_color |-> C_BLUE]

\* get_roots() appending the home directory after the optional roots
get_roots_home_last(file) ==
    LET home == << [id |-> "home", path |-> realpath(HOME_DIR)] >>
        env_root == envRoot
        env  == IF env_root # <<>> /\ isdir(env_root)
                THEN << [id |-> "env_root", path |-> realpath(env_root)] >>
                ELSE <<>>
        additional_root == Strip(load_settings(file).additional_root)
        stg  == IF additional_root # <<>> /\ isdir(additional_root)
                THEN << [id |-> "settings_root", path |-> realpath(additional_root)] >>
                ELSE <<>>
    IN  env \o stg \o home

\* get_roots(), reading the settings record `file`
get_roots(file) ==
    LET home == << [id |-> "home", path |-> realpath(HOME_DIR)] >>
        env_root == envRoot
        env  == IF env_root # <<>> /\ isdir(env_root)
                THEN << [id |-> "env_root", path |-> realpath(env_root)] >>
                ELSE <<>>
        additional_root == Strip(load_settings(file).additional_root)
        stg  == IF additional_root # <<>> /\ isdir(additional_root)
                THEN << [id |-> "settings_root", path |-> realpath(additional_root)] >>
                ELSE <<>>
    IN  home \o env \o stg

\* [root["path"] for root in ROOTS]
PathsOf(roots) == [i \in 1..Len(roots) |-> roots[i].path]

---------------------------------------------------------------------------
(* Responses                                                               *)

\* JSON null / Python None, where a path is expected
Null == <<"null">>

NoResp ==
    [op |-> "none", status |-> 0,
     opened |-> Null,      \* save: the file_path handed to open(), "path" of the response
     listed |-> Null,      \* list_dir: the path_real handed to os.listdir(), "path" of the response
     parent |-> Null,      \* list_dir: "parent" of the response
     root |-> "none"]      \* list_dir: id of "root" of the response

---------------------------------------------------------------------------
(* POST /api/save                                                          *)

\* open(.., "w") that appends instead of truncating
WriteFileAppend(fs, target, content) ==
    [p \in (DOMAIN fs) \cup {target} |->
        IF p = target THEN (IF target \in DOMAIN fs THEN fs[target] ELSE <<>>) \o content
        ELSE fs[p]]

\* f.write(content) on a file opened with mode "w": the file holds content
WriteFile(fs, target, content) ==
    [p \in (DOMAIN fs) \cup {target} |-> IF p = target THEN content ELSE fs[p]]

\* os.makedirs(p) raises OSError: a component of p is a regular file
makedirs_fails(p) == \E q \in Ancestors(p) : q \in DOMAIN files

\* open(file_path, "w") raises OSError: the path reaches a directory, or its
\* directory does not exist
open_fails(file_path, ds) ==
    \/ realpath(file_path) \in ds
    \/ PathDirname(realpath(file_path)) \notin ds

\* api_save() creating the directory before the path and filename checks
api_save_result_mkdir_first(directory, filename, content) ==
    LET directory_real == realpath(directory)
        file_path == PathJoin(directory_real, filename)
        resp == [NoResp EXCEPT !.op = "save"]
        made == IF isdir(directory_real) \/ makedirs_fails(directory_real)
                THEN dirs ELSE dirs \cup Ancestors(directory_real)
    IN  IF directory = <<>> \/ filename = <<>>
        THEN [resp |-> [resp EXCEPT !.status = 400], dirs |-> dirs, files |-> files]
        ELSE IF ~is_allowed_path(directory_real)
        THEN [resp |-> [resp EXCEPT !.status = 400], dirs |-> made, files |-> files]
        ELSE IF ~safe_filename(filename)
        THEN [resp |-> [resp EXCEPT !.status = 400], dirs |-> made, files |-> files]
        ELSE IF ~isdir(directory_real) /\ makedirs_fails(directory_real)
        THEN [resp |-> [resp EXCEPT !.status = 500], dirs |-> dirs, files |-> files]
        ELSE IF open_fails(file_path, made)
        THEN [resp |-> [resp EXCEPT !.status = 500], dirs |-> made, files |-> files]
        ELSE [resp |-> [resp EXCEPT !.status = 200, !.opened = file_path],
              dirs |-> made,
              files |-> WriteFile(files, realpath(file_path), content)]

\* api_save(): the response and the filesystem it leaves
api_save_result(directory, filename, content) ==
    LET directory_real == realpath(directory)
        file_path == PathJoin(directory_real, filename)
        resp == [NoResp EXCEPT !.op = "save"]
        made == IF isdir(directory_real) THEN dirs ELSE dirs \cup Ancestors(directory_real)
    IN  IF directory = <<>> \/ filename = <<>>
        THEN [resp |-> [resp EXCEPT !.status = 400], dirs |-> dirs, files |-> files]
        ELSE IF ~is_allowed_path(directory_real)
        THEN [resp |-> [resp EXCEPT !.status = 400], dirs |-> dirs, files |-> files]
        ELSE IF ~safe_filename(filename)
        THEN [resp |-> [resp EXCEPT !.status = 400], dirs |-> dirs, files |-> files]
        ELSE IF ~isdir(directory_real) /\ makedirs_fails(directory_real)
        THEN [resp |-> [resp EXCEPT !.status = 500], dirs |-> dirs, files |-> files]
        ELSE IF open_fails(file_path, made)
        THEN [resp |-> [resp EXCEPT !.status = 500], dirs |-> made, files |-> files]
        ELSE [resp |-> [resp EXCEPT !.status = 200, !.opened = file_path],
              dirs |-> made,
              files |-> WriteFile(files, realpath(file_path), content)]

\* the history of successful saves, after a response
Remember(hist, resp, key, content) ==
    IF resp.status = 200
    THEN [p \in (DOMAIN hist) \cup {key} |-> IF p = key THEN content ELSE hist[p]]
    ELSE hist

api_save(directory, filename, content) ==
    \E r \in { api_save_result(directory, filename, content) } :
        /\ last' = r.resp
        /\ dirs' = r.dirs
        /\ files' = r.files
        /\ savedAt' = Remember(savedAt, r.resp, r.resp.opened, content)
        /\ savedReal' = Remember(savedReal, r.resp, realpath(r.resp.opened), content)
        /\ UNCHANGED <<settingsFile, ROOTS, ALLOWED_ROOT_PATHS, envRoot, sp, ex, rd>>

---------------------------------------------------------------------------
(* GET /api/roots and POST /api/settings                                   *)

api_get_roots ==
    /\ ROOTS' = get_roots(settingsFile)
    /\ ALLOWED_ROOT_PATHS' = PathsOf(ROOTS')
    /\ last' = [NoResp EXCEPT !.op = "roots", !.status = 200]
    /\ UNCHANGED <<settingsFile, envRoot, dirs, files, savedAt, savedReal, sp, ex, rd>>

\* api_save_settings() without the refresh of ROOTS and ALLOWED_ROOT_PATHS
api_save_settings_result_norefresh(additional_root_in, navbar_color_in, saved) ==
    LET additional_root == Strip(additional_root_in)
        stripped_color == Strip(navbar_color_in)
        resp == [NoResp EXCEPT !.op = "settings"]
        keep == [resp |-> resp, file |-> settingsFile, roots |-> ROOTS,
                 paths |-> ALLOWED_ROOT_PATHS]
        navbar_color == IF stripped_color \notin allowed_values
                        THEN ALLOWED_NAV_COLORS[1] ELSE stripped_color
    IN  IF additional_root # <<>> /\ ~isdir(additional_root)
        THEN [keep EXCEPT !.resp.status = 400]
        ELSE LET settings == [present |-> TRUE,
                              additional_root |-> IF additional_root # <<>>
                                                  THEN realpath(additional_root)
                                                  ELSE additional_root,
                              navbar_color |-> navbar_color]
             IN  IF saved
                 THEN [keep EXCEPT !.resp.status = 200, !.file = settings]
                 ELSE [keep EXCEPT !.resp.status = 500]

\* api_save_settings() storing the posted values as they came
api_save_settings_result_unchecked(additional_root_in, navbar_color_in, saved) ==
    LET resp == [NoResp EXCEPT !.op = "settings"]
        keep == [resp |-> resp, file |-> settingsFile, roots |-> ROOTS,
                 paths |-> ALLOWED_ROOT_PATHS]
        settings == [present |-> TRUE, additional_root |-> Strip(additional_root_in),
                     navbar_color |-> Strip(navbar_color_in)]
    IN  IF saved
        THEN [resp |-> [resp EXCEPT !.status = 200], file |-> settings,
              roots |-> get_roots(settings), paths |-> PathsOf(get_roots(settings))]
        ELSE [keep EXCEPT !.resp.status = 500]

\* api_save_settings(): the response, the settings file and the root cache it
\* leaves. saved is save_settings()'s return value.
api_save_settings_result(additional_root_in, navbar_color_in, saved) ==
    LET additional_root == Strip(additional_root_in)
        stripped_color == Strip(navbar_color_in)
        resp == [NoResp EXCEPT !.op = "settings"]
        keep == [resp |-> resp, file |-> settingsFile, roots |-> ROOTS,
                 paths |-> ALLOWED_ROOT_PATHS]
        navbar_color == IF stripped_color \notin allowed_values
                        THEN ALLOWED_NAV_COLORS[1] ELSE stripped_color
    IN  IF additional_root # <<>> /\ ~isdir(additional_root)
        THEN [keep EXCEPT !.resp.status = 400]
        ELSE LET settings == [present |-> TRUE,
                              additional_root |-> IF additional_root # <<>>
                                                  THEN realpath(additional_root)
                                                  ELSE additional_root,
                              navbar_color |-> navbar_color]
             IN  IF saved
                 THEN [resp |-> [resp EXCEPT !.status = 200], file |-> settings,
                       roots |-> get_roots(settings),
                       paths |-> PathsOf(get_roots(settings))]
                 ELSE [keep EXCEPT !.resp.status = 500]

api_save_settings(additional_root_in, navbar_color_in, saved) ==
    \E r \in { api_save_settings_result(additional_root_in, navbar_color_in, saved) } :
        /\ last' = r.resp
        /\ settingsFile' = r.file
        /\ ROOTS' = r.roots
        /\ ALLOWED_ROOT_PATHS' = r.paths
        /\ UNCHANGED <<envRoot, dirs, files, savedAt, savedReal, sp, ex, rd>>

---------------------------------------------------------------------------
(* GET /api/list_dir                                                       *)

RECURSIVE first_root(_, _)
\* the loop over ROOTS: index of the first root the path is under, 0 for none
first_root(path_real, i) ==
    IF i > Len(ROOTS) THEN 0
    ELSE IF is_subpath(path_real, ROOTS[i].path) THEN i
    ELSE first_root(path_real, i + 1)

\* the parent computed without keeping it inside the root
list_dir_parent_unbounded(path_real, root_path) == PathDirname(path_real)

\* "parent" of the response: lines 409-413
list_dir_parent(path_real, root_path) ==
    IF realpath(path_real) # root_path
    THEN LET potential_parent == PathDirname(path_real)
         IN  IF is_subpath(potential_parent, root_path) THEN potential_parent ELSE Null
    ELSE Null

\* api_list_dir(): the response, its "entries" left out (they read the
\* directory and decide nothing else in the response)
api_list_dir_result(path_in) ==
    LET resp == [NoResp EXCEPT !.op = "list_dir"]
        path == IF path_in = <<>> /\ ROOTS # <<>> THEN ROOTS[1].path ELSE path_in
        path_real == realpath(path)
        k == first_root(path_real, 1)
    IN  IF path_in = <<>> /\ ROOTS = <<>> THEN [resp EXCEPT !.status = 500]
        ELSE IF ~is_allowed_path(path_real) THEN [resp EXCEPT !.status = 400]
        ELSE IF ~isdir(path_real) THEN [resp EXCEPT !.status = 400]
        ELSE IF k = 0 THEN [resp EXCEPT !.status = 400]
        ELSE [resp EXCEPT !.status = 200, !.listed = path_real,
                          !.parent = list_dir_parent(path_real, ROOTS[k].path),
                          !.root = ROOTS[k].id]

api_list_dir(path_in) ==
    /\ last' = api_list_dir_result(path_in)
    /\ UNCHANGED <<settingsFile, ROOTS, ALLOWED_ROOT_PATHS, envRoot, dirs, files,
                   savedAt, savedReal, sp, ex, rd>>

---------------------------------------------------------------------------
(* One call of is_subpath                                                  *)

MaxPathLen == 4
MaxRootLen == 3

PathAlphabet == {"/", "a", "b", "c"}

\* the absolute paths of at most n characters after the leading separator
AbsPaths(n) ==
    UNION { { <<Sep>> \o t : t \in [1..k -> PathAlphabet] } : k \in 0..n }

\* paths with "." and ".." components, and the spec's /a/b against /a/bc
DottedPaths ==
    { <<"/", "a", "/", ".", ".">>, <<"/", "a", "/", ".", "/", "b">>,
      <<"/", "a", "/", ".", ".", "/", "a", "b">>, <<"/", ".", ".">>,
      <<"/", "a", "/", "b", "c">>, <<"/", "a", "/", "c", "/", ".", ".">> }

SpIdle == [path |-> <<>>, parent |-> <<>>, result |-> FALSE, done |-> FALSE]

SpInit ==
    /\ sp \in { [SpIdle EXCEPT !.path = p, !.parent = r] :
                  p \in AbsPaths(MaxPathLen) \cup DottedPaths,
                  r \in AbsPaths(MaxRootLen) \cup DottedPaths }

CallIsSubpath ==
    /\ ~sp.done
    /\ sp' = [sp EXCEPT !.result = is_subpath(sp.path, sp.parent), !.done = TRUE]
    /\ UNCHANGED <<settingsFile, ROOTS, ALLOWED_ROOT_PATHS, envRoot, dirs, files, last,
                   savedAt, savedReal, ex, rd>>

---------------------------------------------------------------------------
(* extract_jinja_variables                                                 *)

\* [a-zA-Z_] and [a-zA-Z0-9_] and \s, on the characters texts are made of
IdentStart == {"a", "b", "n", "o", "d", "x", "H", "_"}
IdentChar == IdentStart \cup {"1"}
Space == {" "}

\* ord(c) for the identifier characters
Ord(c) ==
    CASE c = "1" -> 49 [] c = "H" -> 72 [] c = "_" -> 95 [] c = "a" -> 97 [] c = "b" -> 98
      [] c = "d" -> 100 [] c = "n" -> 110 [] c = "o" -> 111 [] c = "x" -> 120

RECURSIVE SkipWhile(_, _, _)
\* the first index from i on whose character is not in cls (Len(s) + 1 for none)
SkipWhile(s, i, cls) ==
    IF i <= Len(s) /\ s[i] \in cls THEN SkipWhile(s, i + 1, cls) ELSE i

RECURSIVE SkipUntilBrace(_, _)
\* [^}]*: the first index from i on holding "}" (Len(s) + 1 for none)
SkipUntilBrace(s, i) ==
    IF i <= Len(s) /\ s[i] # "}" THEN SkipUntilBrace(s, i + 1) ELSE i

\* the pattern {{\s*([a-zA-Z_][a-zA-Z0-9_]*)[^}]*}} tried at index i:
\* [ok, group 1, index after the match]
MatchAt(s, i) ==
    LET j == SkipWhile(s, i + 2, Space)
        k == SkipWhile(s, j, IdentChar)
        m == SkipUntilBrace(s, k)
    IN  IF /\ i + 1 <= Len(s) /\ s[i] = "{" /\ s[i + 1] = "{"
           /\ j <= Len(s) /\ s[j] \in IdentStart
           /\ m + 1 <= Len(s) /\ s[m] = "}" /\ s[m + 1] = "}"
        THEN [ok |-> TRUE, group |-> SubSeq(s, j, k - 1), end |-> m + 2]
        ELSE [ok |-> FALSE, group |-> <<>>, end |-> i]

RECURSIVE FindAll(_, _, _)
\* pattern.findall(s): the groups of the non-overlapping matches, left to right
FindAll(s, i, acc) ==
    IF i > Len(s) THEN acc
    ELSE LET r == MatchAt(s, i)
         IN  IF r.ok THEN FindAll(s, r.end, Append(acc, r.group))
             ELSE FindAll(s, i + 1, acc)

RECURSIVE StrLess(_, _)
\* u < v for Python strings
StrLess(u, v) ==
    IF v = <<>> THEN FALSE
    ELSE IF u = <<>> THEN TRUE
    ELSE IF Head(u) # Head(v) THEN Ord(Head(u)) < Ord(Head(v))
    ELSE StrLess(Tail(u), Tail(v))

RECURSIVE Sorted(_)
\* sorted(S) for a set S of strings
Sorted(S) ==
    IF S = {} THEN <<>>
    ELSE LET least == CHOOSE u \in S : \A v \in S \ {u} : StrLess(u, v)
         IN  <<least>> \o Sorted(S \ {least})

\* the groups in source order, neither sorted nor deduplicated
extract_jinja_variables_unsorted(template_text) == FindAll(template_text, 1, <<>>)

\* extract_jinja_variables(template_text)
extract_jinja_variables(template_text) ==
    LET found == FindAll(template_text, 1, <<>>)
    IN  Sorted({ found[n] : n \in 1..Len(found) })

MaxTokens == 5

Tokens == { <<"{", "{">>, <<"}", "}">>, <<"}">>, <<" ">>, <<"a">>, <<"b">> }

RECURSIVE Flatten(_)
Flatten(ts) == IF ts = <<>> THEN <<>> ELSE Head(ts) \o Flatten(Tail(ts))

\* the texts made of at most n tokens
TokenTexts(n) == UNION { { Flatten(t) : t \in [1..k -> Tokens] } : k \in 0..n }

\* "H {{ n }}, {{ n }}, {{ o|d('x') }}" (the spec's example, names shortened),
\* "{{b}}{{a1}}{{b}}" and "{{ 1a }}{{_}}"
ExtraTexts ==
    { <<"H", " ", "{", "{", " ", "n", " ", "}", "}", ",", " ",
        "{", "{", " ", "n", " ", "}", "}", ",", " ",
        "{", "{", " ", "o", "|", "d", "(", "'", "x", "'", ")", " ", "}", "}">>,
      <<"{", "{", "b", "}", "}", "{", "{", "a", "1", "}", "}", "{", "{", "b", "}", "}">>,
      <<"{", "{", " ", "1", "a", " ", "}", "}", "{", "{", "_", "}", "}">> }

ExIdle == [text |-> <<>>, result |-> <<>>, done |-> FALSE]

ExInit == ex \in { [ExIdle EXCEPT !.text = t] : t \in TokenTexts(MaxTokens) \cup ExtraTexts }

CallExtract ==
    /\ ~ex.done
    /\ ex' = [ex EXCEPT !.result = extract_jinja_variables(ex.text), !.done = TRUE]
    /\ UNCHANGED <<settingsFile, ROOTS, ALLOWED_ROOT_PATHS, envRoot, dirs, files, last,
                   savedAt, savedReal, sp, rd>>

---------------------------------------------------------------------------
(* POST /api/render                                                        *)

\* A template is a sequence of pieces: literal text, the outputs {{ a }} and
\* {{ b }}, the output {{ 1/0 }}, and an output tag that is never closed.
Pieces == { "text", "{{ a }}", "{{ b }}", "{{ 1/0 }}", "{{ a" }

MaxPieces == 3

Templates == UNION { [1..k -> Pieces] : k \in 0..MaxPieces }

\* The JSON values of the body's "variables": the key missing, null, false,
\* true, 0, 1, "", "s", [], [1], {} and the objects giving a, or a and b.
JsonValues ==
    { [kind |-> "missing", falsy |-> TRUE, names |-> {}],
      [kind |-> "null", falsy |-> TRUE, names |-> {}],
      [kind |-> "boolean", falsy |-> TRUE, names |-> {}],
      [kind |-> "boolean", falsy |-> FALSE, names |-> {}],
      [kind |-> "number", falsy |-> TRUE, names |-> {}],
      [kind |-> "number", falsy |-> FALSE, names |-> {}],
      [kind |-> "string", falsy |-> TRUE, names |-> {}],
      [kind |-> "string", falsy |-> FALSE, names |-> {}],
      [kind |-> "array", falsy |-> TRUE, names |-> {}],
      [kind |-> "array", falsy |-> FALSE, names |-> {}],
      [kind |-> "object", falsy |-> TRUE, names |-> {}],
      [kind |-> "object", falsy |-> FALSE, names |-> {"a"}],
      [kind |-> "object", falsy |-> FALSE, names |-> {"a", "b"}] }

EmptyDict == [kind |-> "object", falsy |-> TRUE, names |-> {}]

\* the exception classes that derive from jinja2.TemplateError
TemplateError == { "TemplateSyntaxError", "UndefinedError" }

RECURSIVE RenderPieces(_, _, _)
\* tmpl.render(**variables): the output, or the first exception raised.
\* StrictUndefined raises UndefinedError when an undefined name is printed.
RenderPieces(template, names, out) ==
    IF template = <<>> THEN [exc |-> "none", out |-> out]
    ELSE LET piece == Head(template)
         IN  IF piece = "text" THEN RenderPieces(Tail(template), names, Append(out, "text"))
             ELSE IF piece = "{{ 1/0 }}" THEN [exc |-> "ZeroDivisionError", out |-> <<>>]
             ELSE IF piece = "{{ a }}" /\ "a" \in names
                  THEN RenderPieces(Tail(template), names, Append(out, "value of a"))
             ELSE IF piece = "{{ b }}" /\ "b" \in names
                  THEN RenderPieces(Tail(template), names, Append(out, "value of b"))
             ELSE [exc |-> "UndefinedError", out |-> <<>>]

\* jinja_env.from_string(template_text) followed by tmpl.render(**variables)
Jinja(template, names) ==
    IF \E n \in 1..Len(template) : template[n] = "{{ a"
    THEN [exc |-> "TemplateSyntaxError", out |-> <<>>]
    ELSE RenderPieces(template, names, <<>>)

RdIdle == [template |-> <<>>, variables |-> EmptyDict, status |-> 0,
           rendered |-> FALSE, body |-> <<>>, error |-> "none"]

\* api_render(): the response. rendered tells whether the try block ran.
api_render_result(template_text, variables_in) ==
    LET req == [RdIdle EXCEPT !.template = template_text, !.variables = variables_in]
        variables == IF variables_in.falsy THEN EmptyDict ELSE variables_in
        r == Jinja(template_text, variables.names)
    IN  IF variables.kind # "object"
        THEN [req EXCEPT !.status = 400, !.error = "variables must be an object"]
        ELSE IF r.exc = "none"
        THEN [req EXCEPT !.status = 200, !.rendered = TRUE, !.body = r.out]
        ELSE IF r.exc \in TemplateError
        THEN [req EXCEPT !.status = 400, !.rendered = TRUE, !.error = r.exc]
        ELSE [req EXCEPT !.status = 500, !.rendered = TRUE, !.error = "Internal server error"]

api_render(template_text, variables_in) ==
    /\ rd.status = 0
    /\ rd' = api_render_result(template_text, variables_in)
    /\ UNCHANGED <<settingsFile, ROOTS, ALLOWED_ROOT_PATHS, envRoot, dirs, files, last,
                   savedAt, savedReal, sp, ex>>

---------------------------------------------------------------------------
(* The process                                                             *)

\* TEMPLATE_EDITOR_ROOT: unset, or the directory /a/a
EnvChoices == { <<>>, P_a_a }

\* "", /a, /a/b and /a/../ab
SaveDirs == { <<>>, P_a, P_a_b, <<"/", "a", "/", ".", ".", "/", "a", "b">> }
\* "", " ", c and ../c
FileNames == { <<>>, <<" ">>, <<"c">>, <<".", ".", "/", "c">> }
Contents == { <<"x">>, <<"y", " ">> }
ListPaths == { <<>>, P_root, P_a, P_a_a, P_a_b, P_ab }
\* "", " /ab " and the link /a/c
SettingsRoots == { <<>>, <<" ">> \o P_ab \o <<" ">>, P_a_c }
NavColors == { <<"red">>, <<" ">> \o C_LAV \o <<" ">> }

MainIdle ==
    /\ settingsFile = NoFile
    /\ envRoot = <<>>
    /\ dirs = {}
    /\ files = <<>>
    /\ ROOTS = <<>>
    /\ ALLOWED_ROOT_PATHS = <<>>
    /\ last = NoResp
    /\ savedAt = <<>>
    /\ savedReal = <<>>


\* process start (lines 160-161) with no settings file yet; the filesystem
\* holds /, the home directory /a with its subdirectory /a/a and the link
\* /a/c, and the directory /ab; /a/b does not exist yet
Init ==
    /\ settingsFile = NoFile
    /\ envRoot \in EnvChoices
    /\ dirs = { P_root, P_a, P_a_a, P_ab }
    /\ files = <<>>
    /\ ROOTS = get_roots(settingsFile)
    /\ ALLOWED_ROOT_PATHS = PathsOf(ROOTS)
    /\ last = NoResp
    /\ savedAt = <<>>
    /\ savedReal = <<>>
    /\ sp = SpIdle
    /\ ex = ExIdle
    /\ rd = RdIdle

Next ==
    \/ \E d \in SaveDirs, f \in FileNames, c \in Contents : api_save(d, f, c)
    \/ \E p \in ListPaths : api_list_dir(p)
    \/ api_get_roots
    \/ \E r \in SettingsRoots, n \in NavColors, ok \in BOOLEAN : api_save_settings(r, n, ok)

Spec == Init /\ [][Next]_vars

SubpathInit ==
    /\ MainIdle
    /\ SpInit
    /\ ex = ExIdle
    /\ rd = RdIdle

SubpathNext == CallIsSubpath

SpecSubpath == SubpathInit /\ [][SubpathNext]_vars

ExtractInit ==
    /\ MainIdle
    /\ sp = SpIdle
    /\ ExInit
    /\ rd = RdIdle

ExtractNext == CallExtract

SpecExtract == ExtractInit /\ [][ExtractNext]_vars

RenderInit ==
    /\ MainIdle
    /\ sp = SpIdle
    /\ ex = ExIdle
    /\ rd = RdIdle

RenderNext == \E t \in Templates, v \in JsonValues : api_render(t, v)

SpecRender == RenderInit /\ [][RenderNext]_vars

---------------------------------------------------------------------------
(* Properties                                                              *)

\* p is r or lies under r, component by component (both taken canonical)
Nested(p, r) ==
    LET cp == JoinRealPath(<<>>, Split(p))
        cr == JoinRealPath(<<>>, Split(r))
    IN  Len(cr) <= Len(cp) /\ SubSeq(cp, 1, Len(cr)) = cr

UnderSomeRoot(p) == \E i \in 1..Len(ALLOWED_ROOT_PATHS) : Nested(p, ALLOWED_ROOT_PATHS[i])

\* C1: every file a save has opened for writing and every directory a
\* list_dir has listed is, once links and ".." are resolved, one of the roots
\* in force or nested under one.
C1_WritesAndListingsUnderRoots ==
    /\ (last.op = "save" /\ last.status = 200) => UnderSomeRoot(realpath(last.opened))
    /\ (last.op = "list_dir" /\ last.status = 200) => UnderSomeRoot(realpath(last.listed))

\* the filename is empty, or holds a separator or ".."
BadName(f) ==
    \/ f = <<>>
    \/ \E i \in 1..Len(f) : f[i] = Sep
    \/ \E i \in 1..(Len(f) - 1) : f[i] = "." /\ f[i + 1] = "."

\* C2: a save whose directory or filename is missing, whose directory is under
\* no allowed root, or whose filename is empty or holds a separator or "..",
\* answers 400 and creates no directory and creates or changes no file.
C2_RejectedSaveChangesNothing ==
    \A d \in SaveDirs, f \in FileNames, c \in Contents :
        (d = <<>> \/ BadName(f) \/ ~UnderSomeRoot(d)) =>
            LET r == api_save_result(d, f, c)
            IN  r.resp.status = 400 /\ r.dirs = dirs /\ r.files = files

\* a save has been refused while /ab is under no root and /a/b, which refused
\* saves have named, does not exist
C2_Witness ==
    /\ last.op = "save" /\ last.status = 400
    /\ files # <<>>
    /\ ~UnderSomeRoot(P_ab)
    /\ P_a_b \notin dirs

\* C3: the cached roots are those of the persisted settings: the settings
\* root in the cache is the persisted additional_root, it is there whenever
\* one is persisted, and the path list checked by save and list_dir is the
\* cache's.
C3_RootCacheFollowsSettings ==
    LET persisted == load_settings(settingsFile).additional_root
    IN  /\ persisted # <<>> =>
               \E i \in 1..Len(ROOTS) :
                   ROOTS[i].id = "settings_root" /\ ROOTS[i].path = persisted
        /\ \A i \in 1..Len(ROOTS) :
               ROOTS[i].id = "settings_root" => ROOTS[i].path = persisted
        /\ ALLOWED_ROOT_PATHS = PathsOf(ROOTS)
        /\ \A d \in SaveDirs \ {<<>>} :
               is_allowed_path(realpath(d)) <=>
                   \/ Nested(d, HOME_DIR)
                   \/ persisted # <<>> /\ Nested(d, persisted)
                   \/ \E i \in 1..Len(ROOTS) :
                          ROOTS[i].id = "env_root" /\ Nested(d, ROOTS[i].path)

\* /ab was a settings root, a file was saved in it, the root was given up
\* again and a save into /ab has been refused
C3_Witness ==
    /\ last.op = "save" /\ last.status = 400
    /\ settingsFile.present /\ settingsFile.additional_root = <<>>
    /\ P_ab_c \in DOMAIN savedAt
    /\ ~is_allowed_path(P_ab)

\* C4 as stated: is_subpath(p, r) iff the canonical p is the canonical r or
\* starts with the canonical r followed by the separator.
C4_SubpathIffPrefixWithSep ==
    sp.done =>
        (sp.result <=>
            \/ realpath(sp.path) = realpath(sp.parent)
            \/ StartsWith(realpath(sp.path), realpath(sp.parent) \o <<Sep>>))

\* C4 amended: is_subpath(p, r) iff the canonical p is the canonical r or
\* starts with the canonical r, its trailing separator dropped, followed by
\* the separator; so /a/bc is not under /a/b, and every path is under "/".
C4_SubpathIffPrefixAtBoundary ==
    sp.done =>
        LET cp == realpath(sp.path)
            cr == realpath(sp.parent)
        IN  /\ sp.result <=>
                  \/ cp = cr
                  \/ cr = P_root
                  \/ cr # P_root /\ StartsWith(cp, cr \o <<Sep>>)
            /\ sp.result <=> Nested(sp.path, sp.parent)
            /\ (sp.path = <<"/", "a", "/", "b", "c">> /\ sp.parent = P_a_b) => ~sp.result

C4_Witness ==
    /\ sp.done /\ sp.result
    /\ sp.parent = <<"/", "a", "/", ".", ".">> /\ sp.path = P_ab

\* d is a direct child of r: r is the directory name of d, and d is not r
DirectChild(d, r) == d # r /\ PathDirname(d) = r

\* C7 as stated: listing a directory that is the path of any current root gives
\* parent null, and listing a direct child of any current root's path gives
\* that root's path as parent.
C7_ParentForEveryRoot ==
    (last.op = "list_dir" /\ last.status = 200) =>
        \A i \in 1..Len(ROOTS) :
            /\ last.listed = ROOTS[i].path => last.parent = Null
            /\ DirectChild(last.listed, ROOTS[i].path) => last.parent = ROOTS[i].path

\* the root owning d: the first root, in list order, that d is nested under
Owner(d) ==
    CHOOSE i \in 1..Len(ROOTS) :
        /\ Nested(d, ROOTS[i].path)
        /\ \A j \in 1..(i - 1) : ~Nested(d, ROOTS[j].path)

\* C7 amended: with r the root owning the listed directory (the first root in
\* list order it is under), the response names r as root, parent is null when
\* the directory is r's path and is r's path when the directory is a direct
\* child of it.
C7_ParentForOwningRoot ==
    (last.op = "list_dir" /\ last.status = 200) =>
        LET r == ROOTS[Owner(last.listed)]
        IN  /\ last.root = r.id
            /\ last.listed = r.path => last.parent = Null
            /\ DirectChild(last.listed, r.path) => last.parent = r.path

\* the listed directory is a root's path, nested in the home directory that owns it
C7_Witness ==
    /\ last.op = "list_dir" /\ last.status = 200
    /\ last.listed = P_a_a /\ last.parent = P_a /\ last.root = "home"
    /\ \E i \in 1..Len(ROOTS) : ROOTS[i].path = P_a_a

\* C8 as stated: the file at every path a save has opened holds the content
\* of the most recent successful save to that path.
C8_LastSaveWinsPerPath ==
    \A fp \in DOMAIN savedAt :
        /\ realpath(fp) \in DOMAIN files
        /\ files[realpath(fp)] = savedAt[fp]

\* C8 amended: the regular files are those that successful saves have reached,
\* links resolved, and each holds exactly the content of the most recent
\* successful save that reached it.
C8_LastSaveWinsPerFile ==
    /\ DOMAIN files = DOMAIN savedReal
    /\ \A q \in DOMAIN files : files[q] = savedReal[q]

\* two files exist, the last save overwrote one of them with other content
C8_Witness ==
    /\ last.op = "save" /\ last.status = 200
    /\ Cardinality(DOMAIN files) = 2
    /\ files[realpath(last.opened)] = <<"y", " ">>
    /\ \E q \in DOMAIN files : files[q] = <<"x">>
    /\ \E fp \in DOMAIN savedAt : realpath(fp) = realpath(last.opened) /\ savedAt[fp] = <<"x">>

\* C10: the persisted settings hold a whitelisted navbar_color and an
\* additional_root that is empty or the canonical path of a directory; a POST
\* naming an additional_root that is no directory answers 400 and leaves the
\* settings file and the cached roots as they were.
C10_SettingsValid ==
    LET persisted == load_settings(settingsFile)
    IN  /\ persisted.navbar_color \in { C_MINT, C_BLUE, C_ROSE, C_GRAY, C_LAV }
        /\ \/ persisted.additional_root = <<>>
           \/ /\ realpath(persisted.additional_root) = persisted.additional_root
              /\ persisted.additional_root \in dirs
        /\ \A r \in SettingsRoots, n \in NavColors, ok \in BOOLEAN :
               (Strip(r) # <<>> /\ realpath(Strip(r)) \notin dirs) =>
                   LET res == api_save_settings_result(r, n, ok)
                   IN  /\ res.resp.status = 400
                       /\ res.file = settingsFile
                       /\ res.roots = ROOTS
                       /\ res.paths = ALLOWED_ROOT_PATHS

\* an invalid colour was replaced, a root was stored in canonical form, and a
\* POST naming no directory has then been refused
C10_Witness ==
    /\ last.op = "settings" /\ last.status = 400
    /\ settingsFile.present
    /\ settingsFile.navbar_color = C_MINT
    /\ settingsFile.additional_root = P_ab

\* the identifier read at j: the longest run of identifier characters
IdentAt(s, j) == SubSeq(s, j, SkipWhile(s, j, IdentChar) - 1)

\* a placeholder starts at i and closes at m: "{{", blanks, an identifier at j,
\* then up to m content that satisfies inner, then "}}"
PlaceholderFrom(s, i, m, inner(_, _, _)) ==
    /\ i + 1 <= Len(s) /\ s[i] = "{" /\ s[i + 1] = "{"
    /\ m + 1 <= Len(s) /\ s[m] = "}" /\ s[m + 1] = "}"
    /\ \E j \in (i + 2)..(m - 1) :
           /\ \A q \in (i + 2)..(j - 1) : s[q] \in Space
           /\ s[j] \in IdentStart
           /\ Len(IdentAt(s, j)) <= m - j
           /\ inner(s, j + Len(IdentAt(s, j)), m - 1)

\* the identifier leading the placeholder that starts at i
LeadingIdent(s, i) == IdentAt(s, SkipWhile(s, i + 2, Space))

NoClosing(s, from, to) == \A q \in from..(to - 1) : ~(s[q] = "}" /\ s[q + 1] = "}")
NoBrace(s, from, to) == \A q \in from..to : s[q] # "}"

IsSortedSet(seq) == \A n \in 1..(Len(seq) - 1) : StrLess(seq[n], seq[n + 1])

\* C9 as stated: the result is sorted without duplicates and holds exactly the
\* identifiers leading a placeholder whose content after the identifier holds
\* no "}}" (a single "}" allowed).
C9_ExtractAnyContent ==
    ex.done =>
        /\ IsSortedSet(ex.result)
        /\ { ex.result[n] : n \in 1..Len(ex.result) } =
               { LeadingIdent(ex.text, i) : i \in
                   { i \in 1..Len(ex.text) :
                       \E m \in 1..Len(ex.text) :
                           PlaceholderFrom(ex.text, i, m, NoClosing) } }

\* C9 amended: the result is sorted without duplicates and holds exactly the
\* identifiers leading a placeholder whose content after the identifier holds
\* no "}" at all and which does not start inside an earlier such placeholder.
C9_ExtractBraceFreeOutermost ==
    ex.done =>
        LET s == ex.text
            Closes(i, m) == PlaceholderFrom(s, i, m, NoBrace)
            Starts == { i \in 1..Len(s) : \E m \in 1..Len(s) : Closes(i, m) }
            Inside(i) == \E h \in Starts, m \in 1..Len(s) : h < i /\ Closes(h, m) /\ i <= m + 1
        IN  /\ IsSortedSet(ex.result)
            /\ { ex.result[n] : n \in 1..Len(ex.result) } =
                   { LeadingIdent(s, i) : i \in { i \in Starts : ~Inside(i) } }

\* two placeholders out of order and one repeated: sorted and deduplicated
C9_Witness ==
    /\ ex.done
    /\ ex.text = <<"{", "{", "b", "}", "}", "{", "{", "a", "1", "}", "}", "{", "{", "b", "}", "}">>
    /\ ex.result = << <<"a", "1">>, <<"b">> >>

\* the template cannot be rendered with the names given: a tag is not closed,
\* an output names a variable that is not supplied, or an expression fails
RenderingFails(template, names) ==
    \/ \E n \in 1..Len(template) : template[n] \in { "{{ a", "{{ 1/0 }}" }
    \/ \E n \in 1..Len(template) : template[n] = "{{ a }}" /\ "a" \notin names
    \/ \E n \in 1..Len(template) : template[n] = "{{ b }}" /\ "b" \notin names

\* C5: a render whose template has a syntax error, names a variable that is
\* not supplied, or fails while an expression is evaluated, answers 400 with
\* the engine's message, never 500 and never an output.
C5_RenderFailureIs400 ==
    (rd.status # 0 /\ rd.variables.kind = "object"
       /\ RenderingFails(rd.template, rd.variables.names)) =>
        rd.status = 400 /\ rd.error \in TemplateError \cup {"ZeroDivisionError"}

\* C6: a render whose "variables" is given and is no JSON object answers 400
\* and renders nothing.
C6_NonObjectVariablesIs400 ==
    (rd.status # 0 /\ rd.variables.kind \notin {"object", "missing"}) =>
        rd.status = 400 /\ ~rd.rendered

\* the settings files a process can find when it starts or refreshes
SettingsFiles ==
    { NoFile } \cup
    [present : {TRUE}, additional_root : SettingsRoots \cup {P_ab, P_a_a},
     navbar_color : {C_MINT, C_LAV}]

\* the paths a request can name, with the default of list_dir for none
RequestPaths == { IF p = <<>> THEN ROOTS[1].path ELSE p : p \in ListPaths \cup SaveDirs }

\* C11: between requests the cached ROOTS is non-empty and starts with the
\* canonical home directory (as does every list get_roots() can produce, whatever
\* the settings file holds), and ALLOWED_ROOT_PATHS is the list of ROOTS'
\* paths in the same order; so list_dir without a path never answers 500, and
\* every path is_allowed_path accepts has an owning root in the loop over ROOTS.
C11_RootCacheHomeFirst ==
    /\ ROOTS # <<>>
    /\ ROOTS[1].id = "home"
    /\ ROOTS[1].path = realpath(HOME_DIR)
    /\ \A file \in SettingsFiles :
          /\ get_roots(file) # <<>>
          /\ get_roots(file)[1] = [id |-> "home", path |-> realpath(HOME_DIR)]
    /\ ALLOWED_ROOT_PATHS = PathsOf(ROOTS)
    /\ api_list_dir_result(<<>>).status # 500
    /\ (last.op = "list_dir" => last.status # 500)
    /\ \A p \in RequestPaths :
          is_allowed_path(realpath(p)) => first_root(realpath(p), 1) # 0

\* a POST settings has just failed to write while the cache holds home, the
\* environment root and a settings root set by an earlier successful POST
C11_Witness ==
    /\ last.op = "settings" /\ last.status = 500
    /\ Len(ROOTS) = 3
    /\ ROOTS[2].id = "env_root" /\ ROOTS[3].id = "settings_root"
    /\ ALLOWED_ROOT_PATHS = <<P_a, P_a_a, P_ab>>
    /\ is_allowed_path(P_ab) /\ first_root(P_ab, 1) = 3

====
